---- MODULE Spec2Model ----
(***************************************************************************)
(* Model of colifer/reportextenders/done_aggregation.py: the week          *)
(* extractor, the Done-line parser and the report aggregator, chained as   *)
(* main() chains them.                                                     *)
(*                                                                         *)
(* A Python str is a sequence of one-character strings.  A text that the   *)
(* code builds by appending f"{line}\n" is the sequence of its lines.      *)
(* A dict is the sequence of its values in insertion order; the key of a   *)
(* value is its name field, as in the parser that builds the dict.         *)
(***************************************************************************)
EXTENDS Integers, Sequences, FiniteSets, TLC

VARIABLES pc, done_lines, week_number, report_lines,
          ex_i, week_lines, target_week_started,
          week_done_lines, pa_i, week_done_actions_dict, active_key,
          last_category, weekday_num,
          ag_i, ext_weekly_report, week_done_actions_dict_copy,
          used_action_names, warnings, line_pos,
          overview_section, result_report,
          archive_size, is_finished, offset, total_archived_count, responses

vars == <<pc, done_lines, week_number, report_lines,
          ex_i, week_lines, target_week_started,
          week_done_lines, pa_i, week_done_actions_dict, active_key,
          last_category, weekday_num,
          ag_i, ext_weekly_report, week_done_actions_dict_copy,
          used_action_names, warnings, line_pos,
          overview_section, result_report,
          archive_size, is_finished, offset, total_archived_count, responses>>

\* pocket_stats.main: the archive behind the API, the locals of the loop, and
\* the history of the requests made (offset asked, page received).
pocket_vars == <<archive_size, is_finished, offset, total_archived_count, responses>>

extract_vars == <<ex_i, week_lines, target_week_started>>
parse_vars == <<pa_i, week_done_actions_dict, active_key, last_category, weekday_num>>
agg_vars == <<ag_i, ext_weekly_report, week_done_actions_dict_copy,
              used_action_names, warnings, line_pos>>
input_vars == <<done_lines, week_number, report_lines>>

----------------------------------------------------------------------------
(* Bounds of the model. *)

MaxDoneLen == 4
MaxExtractLen == 4
MaxWeekLen == 4
MaxReportLen == 2
MaxPipeReportLen == 1
MaxArchive == 650

----------------------------------------------------------------------------
(* Python str operations. *)

Whitespace == {" ", "\t"}
DigitChars == <<"0", "1", "2", "3", "4", "5", "6", "7", "8", "9">>
Digits == {DigitChars[i] : i \in 1..10}
Letters == {"A", "B", "C", "D", "E", "F", "G", "H", "I", "J", "K", "L", "M",
            "N", "O", "P", "Q", "R", "S", "T", "U", "V", "W", "X", "Y", "Z",
            "a", "b", "c", "d", "e", "f", "g", "h", "i", "j", "k", "l", "m",
            "n", "o", "p", "q", "r", "s", "t", "u", "v", "w", "x", "y", "z"}
WordChars == Letters \cup Digits \cup {"_"}

\* The printable ASCII characters in code-point order, 32 (space) first; the
\* double quote (34), the backslash (92) and the backquote (96) are held by
\* placeholders.
AsciiPrintable ==
    <<" ", "!", "QUOTE", "#", "$", "%", "&", "'", "(", ")", "*", "+", ",", "-", ".", "/",
      "0", "1", "2", "3", "4", "5", "6", "7", "8", "9", ":", ";", "<", "=", ">", "?",
      "@", "A", "B", "C", "D", "E", "F", "G", "H", "I", "J", "K", "L", "M", "N", "O",
      "P", "Q", "R", "S", "T", "U", "V", "W", "X", "Y", "Z", "[", "BACKSLASH", "]", "^", "_",
      "BACKQUOTE", "a", "b", "c", "d", "e", "f", "g", "h", "i", "j", "k", "l", "m", "n", "o",
      "p", "q", "r", "s", "t", "u", "v", "w", "x", "y", "z", "{", "|", "}", "~">>

ord(c) == IF c = "\t" THEN 9
          ELSE 31 + (CHOOSE i \in 1..Len(AsciiPrintable) : AsciiPrintable[i] = c)

\* Number of leading characters of s that are in chars.
leading(s, chars) ==
    Cardinality({i \in 1..Len(s) : \A j \in 1..i : s[j] \in chars})

\* Number of trailing characters of s that are in chars.
trailing(s, chars) ==
    Cardinality({i \in 1..Len(s) : \A j \in i..Len(s) : s[j] \in chars})

\* s.lstrip(chars)
lstrip_chars(s, chars) == SubSeq(s, leading(s, chars) + 1, Len(s))

\* s.lstrip()
lstrip(s) == lstrip_chars(s, Whitespace)

\* s.rstrip()
rstrip(s) == SubSeq(s, 1, Len(s) - trailing(s, Whitespace))

\* s.strip()
strip(s) == rstrip(lstrip(s))

\* s.startswith(prefix)
startswith(s, prefix) ==
    Len(prefix) <= Len(s) /\ SubSeq(s, 1, Len(prefix)) = prefix

\* sub in s
contains(s, sub) ==
    \E i \in 0..(Len(s) - Len(sub)) : SubSeq(s, i + 1, i + Len(sub)) = sub

\* s[n:] for n >= 0
slice_from(s, n) == SubSeq(s, n + 1, Len(s))

\* " " * n
RECURSIVE spaces(_)
spaces(n) == IF n <= 0 THEN <<>> ELSE <<" ">> \o spaces(n - 1)

\* str(n) for an int n >= 0
RECURSIVE str_int(_)
str_int(n) == IF n < 10 THEN <<DigitChars[n + 1]>>
              ELSE str_int(n \div 10) \o <<DigitChars[(n % 10) + 1]>>

\* f"{n:02d}" for an int n >= 0
format_02d(n) == IF n < 10 THEN <<"0">> \o str_int(n) ELSE str_int(n)

\* s.split(sep), sep not empty
RECURSIVE split(_, _)
split(s, sep) ==
    IF contains(s, sep)
    THEN LET i == CHOOSE k \in 0..(Len(s) - Len(sep)) :
                      /\ SubSeq(s, k + 1, k + Len(sep)) = sep
                      /\ \A j \in 0..(k - 1) : SubSeq(s, j + 1, j + Len(sep)) # sep
         IN  <<SubSeq(s, 1, i)>> \o split(slice_from(s, i + Len(sep)), sep)
    ELSE <<s>>

\* sep.join(parts)
RECURSIVE join(_, _)
join(sep, parts) ==
    IF parts = <<>> THEN <<>>
    ELSE IF Len(parts) = 1 THEN parts[1]
    ELSE parts[1] \o sep \o join(sep, Tail(parts))

\* int(s) succeeds: after stripping whitespace s is a non-empty run of digits.
int_ok(s) == strip(s) # <<>> /\ \A i \in 1..Len(strip(s)) : strip(s)[i] \in Digits

\* int(s), when it succeeds
RECURSIVE int_digits(_)
int_digits(s) ==
    IF s = <<>> THEN 0
    ELSE 10 * int_digits(SubSeq(s, 1, Len(s) - 1))
         + ((CHOOSE d \in 1..10 : DigitChars[d] = s[Len(s)]) - 1)

int(s) == int_digits(strip(s))

\* a < b for two str values (code-point order)
RECURSIVE str_less(_, _)
str_less(a, b) ==
    IF b = <<>> THEN FALSE
    ELSE IF a = <<>> THEN TRUE
    ELSE IF Head(a) = Head(b) THEN str_less(Tail(a), Tail(b))
    ELSE ord(Head(a)) < ord(Head(b))

----------------------------------------------------------------------------
(* Module constants. *)

TRACKED_TAG == <<" ", "(", "T", "r", "a", "c", "k", "e", "d", ")">>

CATEGORIES == {<<"W", "o", "r", "k">>,
               <<"C", "o", "l", "i", "f", "e", "r">>,
               <<"G", "a", "m", "i", "n", "g">>}

IGNORED_CATEGORIES == {<<"W", "o", "r", "k">>}

WEEKDAYS == << <<"M", "o", "n", "d", "a", "y">>,
               <<"T", "u", "e", "s", "d", "a", "y">>,
               <<"W", "e", "d", "n", "e", "s", "d", "a", "y">>,
               <<"T", "h", "u", "r", "s", "d", "a", "y">>,
               <<"F", "r", "i", "d", "a", "y">>,
               <<"S", "a", "t", "u", "r", "d", "a", "y">>,
               <<"S", "u", "n", "d", "a", "y">> >>

week_separator == <<"#", "#", "#", " ", "W", "e", "e", "k", " ">>

----------------------------------------------------------------------------
(* _extract_week_done_lines *)

target_week_start(n) == week_separator \o format_02d(n)

\* The test that ends the scan of the target week.
week_closed(line_stripped) == startswith(line_stripped, week_separator)

\* The target week started by the header of any week.
week_opened_by_any_header(line_stripped, n) ==
    startswith(line_stripped, week_separator)

\* The target week started by any line that begins with its header.
week_opened_by_prefix(line_stripped, n) ==
    startswith(line_stripped, target_week_start(n))

\* The test that starts the target week.
week_opened(line_stripped, n) == line_stripped = target_week_start(n)

\* One iteration of the for loop over done_lines.
ExtractLine ==
    /\ pc = "extract"
    /\ ex_i <= Len(done_lines)
    /\ LET line == done_lines[ex_i]
           line_stripped == strip(line)
       IN  IF target_week_started /\ week_closed(line_stripped)
           THEN /\ pc' = "extract_return"
                /\ UNCHANGED <<ex_i, week_lines, target_week_started>>
           ELSE /\ week_lines' = IF target_week_started
                                 THEN Append(week_lines, line)
                                 ELSE week_lines
                /\ target_week_started' =
                       (target_week_started \/ week_opened(line_stripped, week_number))
                /\ ex_i' = ex_i + 1
                /\ pc' = pc
    /\ UNCHANGED <<pocket_vars, input_vars, week_done_lines, parse_vars, agg_vars,
                   overview_section, result_report>>

\* return week_lines, bound to week_done_lines in main.
ExtractReturn ==
    /\ \/ pc = "extract_return"
       \/ pc = "extract" /\ ex_i > Len(done_lines)
    /\ week_done_lines' = week_lines
    /\ pc' = "parse"
    /\ UNCHANGED <<pocket_vars, input_vars, extract_vars, parse_vars, agg_vars,
                   overview_section, result_report>>

----------------------------------------------------------------------------
(* Regular expressions. *)

\* DAY_DONE_REGEX.match(line): <<>> when there is no match, else <<group(3)>>.
\* The pattern is "#### (\d+)/(\d+) (\w+)", matched at the start of the line.
day_done_match(line) ==
    LET hashes == <<"#", "#", "#", "#", " ">>
        r1 == slice_from(line, Len(hashes))
        d1 == leading(r1, Digits)
        r2 == slice_from(r1, d1)
        r3 == slice_from(r2, 1)
        d2 == leading(r3, Digits)
        r4 == slice_from(r3, d2)
        r5 == slice_from(r4, 1)
        w == leading(r5, WordChars)
    IN  IF /\ startswith(line, hashes)
           /\ d1 >= 1
           /\ startswith(r2, <<"/">>)
           /\ d2 >= 1
           /\ startswith(r4, <<" ">>)
           /\ w >= 1
        THEN <<SubSeq(r5, 1, w)>>
        ELSE <<>>

\* ENTRY_NAME_REGEX.match(s): <<>> when there is no match, else <<group(1)>>.
\* The pattern is "- \*\*([^*]+)\*\*.*", matched at the start of s.
entry_name_match(s) ==
    LET open == <<"-", " ", "*", "*">>
        r1 == slice_from(s, Len(open))
        n == Cardinality({i \in 1..Len(r1) : \A j \in 1..i : r1[j] # "*"})
        r2 == slice_from(r1, n)
    IN  IF startswith(s, open) /\ n >= 1 /\ startswith(r2, <<"*", "*">>)
        THEN <<SubSeq(r1, 1, n)>>
        ELSE <<>>

----------------------------------------------------------------------------
(* dict operations; a dict is the sequence of its values in insertion order. *)

dict_keys(d) == {d[i].name : i \in 1..Len(d)}

dict_index(d, key) == CHOOSE i \in 1..Len(d) : d[i].name = key

dict_get(d, key) == d[dict_index(d, key)]

\* del d[key]
dict_del(d, key) ==
    LET i == dict_index(d, key)
    IN  SubSeq(d, 1, i - 1) \o SubSeq(d, i + 1, Len(d))

----------------------------------------------------------------------------
(* _week_done_lines_to_dict *)

\* weekday_num is "" before the first day header and an int after it; it is
\* held as <<>> or <<int>>.  str(weekday_num):
str_weekday_num(wn) == IF wn = <<>> THEN <<>> ELSE str_int(wn[1])

\* WEEKDAYS.index(weekday) succeeds
weekday_known(weekday) == \E i \in 1..Len(WEEKDAYS) : WEEKDAYS[i] = weekday

\* The index counted from one.
weekdays_index_from_one(weekday) == CHOOSE i \in 1..Len(WEEKDAYS) : WEEKDAYS[i] = weekday

\* WEEKDAYS.index(weekday)
weekdays_index(weekday) == (CHOOSE i \in 1..Len(WEEKDAYS) : WEEKDAYS[i] = weekday) - 1

\* week_done_line.lstrip("- ").strip()
done_line_stripped(week_done_line) == strip(lstrip_chars(week_done_line, {"-", " "}))

\* len(week_done_line) - len(week_done_line.lstrip())
identation_of(line) == Len(line) - Len(lstrip(line))

\* DoneAction(identation_width=..., name=..., category=..., weekday_nums=str(weekday_num), notes=[])
DoneAction(identation_width, name, category, wn) ==
    [identation_width |-> identation_width,
     name |-> name,
     category |-> category,
     weekday_nums |-> str_weekday_num(wn),
     notes |-> <<>>]

\* The weekday appended whether or not it is already listed.
merged_weekday_nums_always(weekday_nums, wn) ==
    weekday_nums \o <<",", " ">> \o str_weekday_num(wn)

\* The weekday_nums of an action met again at the top level.
merged_weekday_nums(weekday_nums, wn) ==
    IF ~contains(weekday_nums, str_weekday_num(wn))
    THEN weekday_nums \o <<",", " ">> \o str_weekday_num(wn)
    ELSE weekday_nums

\* The note stored without its indentation.
week_done_line_unindented(week_done_line, width) == lstrip(week_done_line)

\* week_done_line[active_key.identation_width:]
week_done_line_shifted(week_done_line, width) == slice_from(week_done_line, width)

\* A blank line that ends the active action.
skip_blank_closing(st) == [st EXCEPT !.active_key = <<>>]

\* if not week_done_line_stripped: continue
skip_blank(st) == st

\* A category line that leaves the active action active.
category_seen_keeping_active(st, category) ==
    [st EXCEPT !.last_category = category]

\* The category branch: active_key = None; last_category = week_done_line_stripped
category_seen(st, category) ==
    [st EXCEPT !.active_key = <<>>,
               !.last_category = category]

\* Every top-level line taken for a new action.
is_new_action_always(name, dict) == TRUE

\* week_done_line_stripped not in week_done_action_dict
is_new_action(name, dict) == name \notin dict_keys(dict)

\* The note put first: notes.insert(0, week_done_line_shifted)
notes_prepended(notes, week_done_line) == <<week_done_line>> \o notes

\* notes.append(week_done_line_shifted)
notes_appended(notes, week_done_line) == Append(notes, week_done_line)

\* One iteration of the for loop over week_done_lines.
parse_line(st, week_done_line) ==
    LET week_done_line_stripped == done_line_stripped(week_done_line)
        day_done_regex_match == day_done_match(week_done_line)
        identation_width == identation_of(week_done_line)
        \* last_category after the first "if identation_width == 0"
        category == IF identation_width = 0 THEN <<>> ELSE st.last_category
    IN  IF week_done_line_stripped = <<>> THEN skip_blank(st)
        ELSE IF day_done_regex_match # <<>>
        THEN IF weekday_known(day_done_regex_match[1])
             THEN [st EXCEPT !.weekday_num = <<weekdays_index(day_done_regex_match[1])>>,
                             !.last_category = <<>>,
                             !.active_key = <<>>]
             ELSE [st EXCEPT !.raised = TRUE]
        ELSE IF week_done_line_stripped \in CATEGORIES
        THEN category_seen(st, week_done_line_stripped)
        ELSE IF identation_width = 0
        THEN IF is_new_action(week_done_line_stripped, st.dict)
             THEN [st EXCEPT !.last_category = category,
                             !.active_key = <<week_done_line_stripped>>,
                             !.dict = Append(st.dict,
                                             DoneAction(identation_width,
                                                        week_done_line_stripped,
                                                        category, st.weekday_num))]
             ELSE LET i == dict_index(st.dict, week_done_line_stripped)
                  IN  [st EXCEPT !.last_category = category,
                                 !.active_key = <<week_done_line_stripped>>,
                                 !.dict[i].weekday_nums =
                                     merged_weekday_nums(st.dict[i].weekday_nums,
                                                         st.weekday_num)]
        ELSE IF st.active_key # <<>>
        THEN LET i == dict_index(st.dict, st.active_key[1])
             IN  [st EXCEPT !.dict[i].notes =
                      notes_appended(st.dict[i].notes,
                                     week_done_line_shifted(week_done_line,
                                                            st.dict[i].identation_width))]
        ELSE st

\* The locals before the loop.
parser_init ==
    [dict |-> <<>>, active_key |-> <<>>, last_category |-> <<>>,
     weekday_num |-> <<>>, raised |-> FALSE]

\* The whole loop over week_done_lines; it ends at the line that raises.
RECURSIVE week_done_lines_to_dict(_)
week_done_lines_to_dict(lines) ==
    IF lines = <<>> THEN parser_init
    ELSE LET st == week_done_lines_to_dict(SubSeq(lines, 1, Len(lines) - 1))
         IN  IF st.raised THEN st ELSE parse_line(st, lines[Len(lines)])

parser_state ==
    [dict |-> week_done_actions_dict, active_key |-> active_key,
     last_category |-> last_category, weekday_num |-> weekday_num, raised |-> FALSE]

ParseLine ==
    /\ pc = "parse"
    /\ pa_i <= Len(week_done_lines)
    /\ LET st == parse_line(parser_state, week_done_lines[pa_i])
       IN  /\ week_done_actions_dict' = st.dict
           /\ active_key' = st.active_key
           /\ last_category' = st.last_category
           /\ weekday_num' = st.weekday_num
           /\ pc' = IF st.raised THEN "raised" ELSE pc
           /\ pa_i' = IF st.raised THEN pa_i ELSE pa_i + 1
    /\ UNCHANGED <<pocket_vars, input_vars, extract_vars, week_done_lines, agg_vars,
                   overview_section, result_report>>

\* return week_done_action_dict; main passes it to _aggregate_report, whose
\* first statements make the working copy.
ParseReturn ==
    /\ pc = "parse"
    /\ pa_i > Len(week_done_lines)
    /\ week_done_actions_dict_copy' = week_done_actions_dict
    /\ pc' = "aggregate"
    /\ UNCHANGED <<pocket_vars, input_vars, extract_vars, week_done_lines, parse_vars,
                   ag_i, ext_weekly_report, used_action_names, warnings, line_pos,
                   overview_section, result_report>>

----------------------------------------------------------------------------
(* _aggregate_report: the injection pass *)

\* The report line copied without its surrounding whitespace.
copied_line_stripped(report_line) == strip(report_line)

\* The line the loop copies to the report body: f"{report_line}\n"
copied_line(report_line) == report_line

\* No name is ever taken for an already used one.
is_duplicate_never(action_name, used) == FALSE

\* action_name in used_action_names
is_duplicate(action_name, used) == action_name \in used

\* No category is ignored.
is_ignored_never(category) == FALSE

\* action.category in IGNORED_CATEGORIES
is_ignored(category) == category \in IGNORED_CATEGORIES

\* " " * action_name_identation if action_name_identation else ""
base_identation(action_name_identation) ==
    IF action_name_identation # 0 THEN spaces(action_name_identation) ELSE <<>>

\* The notes injected latest first.
injected_notes_reversed(action, action_name_identation) ==
    [i \in 1..Len(action.notes) |->
        base_identation(action_name_identation)
            \o action.notes[Len(action.notes) + 1 - i]]

\* The lines the loop over action.notes appends: f"{base_identation}{note}\n"
injected_notes(action, action_name_identation) ==
    [i \in 1..Len(action.notes) |->
        base_identation(action_name_identation) \o action.notes[i]]

\* The deletion when the working copy is the given dict itself.
del_consumed_aliased(st, name) ==
    [st EXCEPT !.copy = dict_del(st.copy, name),
               !.dict = dict_del(st.dict, name)]

\* del week_done_actions_dict_copy[action.name], the copy made by .copy()
del_consumed(st, name) == [st EXCEPT !.copy = dict_del(st.copy, name)]

\* One iteration of the for loop over report_lines.
aggregate_line(st, report_line) ==
    LET copied == [st EXCEPT !.ext = Append(st.ext, copied_line(report_line))]
        action_name_match == entry_name_match(strip(report_line))
        action_name_identation == identation_of(report_line)
    IN  IF strip(report_line) = <<>> THEN copied
        ELSE IF action_name_match = <<>> THEN copied
        ELSE LET action_name == action_name_match[1]
             IN  IF is_duplicate(action_name, st.used)
                 THEN [copied EXCEPT !.warnings = Append(st.warnings, action_name)]
                 ELSE IF action_name \in dict_keys(st.copy)
                 THEN LET action == dict_get(st.copy, action_name)
                      IN  IF ~is_ignored(action.category)
                          THEN del_consumed(
                                   [copied EXCEPT
                                       !.used = st.used \cup {action_name},
                                       !.ext = copied.ext \o
                                               injected_notes(action, action_name_identation)],
                                   action.name)
                          ELSE [copied EXCEPT !.used = st.used \cup {action_name}]
                 ELSE copied

aggregate_state ==
    [ext |-> ext_weekly_report, dict |-> week_done_actions_dict,
     copy |-> week_done_actions_dict_copy,
     used |-> used_action_names, warnings |-> warnings]

\* line_pos records, for each report line read, the index its copy has in the
\* report body (the length of ext_weekly_report plus one when it is appended).
AggregateLine ==
    /\ pc = "aggregate"
    /\ ag_i <= Len(report_lines)
    /\ LET st == aggregate_line(aggregate_state, report_lines[ag_i])
       IN  /\ ext_weekly_report' = st.ext
           /\ week_done_actions_dict' = st.dict
           /\ week_done_actions_dict_copy' = st.copy
           /\ used_action_names' = st.used
           /\ warnings' = st.warnings
    /\ line_pos' = Append(line_pos, Len(ext_weekly_report) + 1)
    /\ ag_i' = ag_i + 1
    /\ UNCHANGED <<pc, pocket_vars, input_vars, extract_vars, week_done_lines, pa_i,
                   active_key, last_category, weekday_num,
                   overview_section, result_report>>

----------------------------------------------------------------------------
(* _aggregate_report: the Overview pass *)

overview_header == <<"#", "#", " ", "O", "v", "e", "r", "v", "i", "e", "w">>

\* The Overview built from the actions left in the working copy.
overview_source_copy(dict, copy) == copy

\* The dict whose values the Overview lists: week_done_actions_dict.values()
overview_source(dict, copy) == dict

\* The key without the weekday numbers.
sort_key_name_only(action) == <<"-", " ">> \o action.name \o <<" ">>

\* (f"- {action.weekday_nums} " if action.weekday_nums else "") + f"- {action.name} "
sort_key(action) ==
    (IF action.weekday_nums # <<>>
     THEN <<"-", " ">> \o action.weekday_nums \o <<" ">>
     ELSE <<>>) \o <<"-", " ">> \o action.name \o <<" ">>

\* sorted(action_tuples, key=lambda x: x[0]): a stable sort, smallest key first.
RECURSIVE insert_sorted(_, _)
insert_sorted(sorted, action) ==
    IF sorted = <<>> THEN <<action>>
    ELSE IF str_less(sort_key(action), sort_key(sorted[Len(sorted)]))
    THEN Append(insert_sorted(SubSeq(sorted, 1, Len(sorted) - 1), action),
                sorted[Len(sorted)])
    ELSE Append(sorted, action)

RECURSIVE sorted_actions(_)
sorted_actions(d) ==
    IF d = <<>> THEN <<>>
    ELSE insert_sorted(sorted_actions(SubSeq(d, 1, Len(d) - 1)), d[Len(d)])

\* WEEKDAYS[int(weekday_num)] succeeds for every part of action.weekday_nums
weekdays_ok(action) ==
    \/ action.weekday_nums = <<>>
    \/ LET parts == split(action.weekday_nums, <<",", " ">>)
       IN  \A i \in 1..Len(parts) : int_ok(parts[i]) /\ int(parts[i]) < Len(WEEKDAYS)

\* action_weekdays
action_weekdays(action) ==
    IF action.weekday_nums # <<>>
    THEN LET parts == split(action.weekday_nums, <<",", " ">>)
             names == [i \in 1..Len(parts) |-> WEEKDAYS[int(parts[i]) + 1]]
         IN  <<"-", " ">> \o join(<<",", " ">>, names) \o <<" ">>
    ELSE <<>>

\* The tag given to the actions left in the working copy.
tracked_tag_unconsumed(name, copy) ==
    IF name \in dict_keys(copy) THEN TRACKED_TAG ELSE <<>>

\* TRACKED_TAG if action.name not in week_done_actions_dict_copy else ""
tracked_tag(name, copy) ==
    IF name \notin dict_keys(copy) THEN TRACKED_TAG ELSE <<>>

\* The lines one iteration of the loop over sorted_action_tuples appends.
overview_entry(action, copy) ==
    <<action_weekdays(action) \o <<"-", " ">> \o action.name
        \o tracked_tag(action.name, copy)>> \o action.notes

RECURSIVE overview_entries(_, _)
overview_entries(sorted, copy) ==
    IF sorted = <<>> THEN <<>>
    ELSE overview_entry(Head(sorted), copy) \o overview_entries(Tail(sorted), copy)

\* The loop over report_lines has ended: build the Overview section and
\* return overview_section + "\n" + ext_weekly_report.
Overview ==
    /\ pc = "aggregate"
    /\ ag_i > Len(report_lines)
    /\ LET actions == overview_source(week_done_actions_dict,
                                      week_done_actions_dict_copy)
       IN
       IF \A i \in 1..Len(actions) : weekdays_ok(actions[i])
       THEN /\ overview_section' =
                   <<overview_header>> \o
                   overview_entries(sorted_actions(actions),
                                    week_done_actions_dict_copy)
            /\ result_report' = overview_section' \o << <<>> >> \o ext_weekly_report
            /\ pc' = "done"
       ELSE /\ pc' = "raised"
            /\ UNCHANGED <<overview_section, result_report>>
    /\ UNCHANGED <<pocket_vars, input_vars, extract_vars, week_done_lines, parse_vars, agg_vars>>

----------------------------------------------------------------------------
(* Inputs. *)

RECURSIVE SeqsUpTo(_, _)
SeqsUpTo(S, n) == IF n = 0 THEN {<<>>}
                  ELSE SeqsUpTo(S, n - 1) \cup [1..n -> S]

NameA == <<"A">>
NameB == <<"B">>
Work == <<"W", "o", "r", "k">>

\* Done-log lines
LineWeek01 == <<"#", "#", "#", " ", "W", "e", "e", "k", " ", "0", "1">>
LineWeek01Indented == <<" ", "#", "#", "#", " ", "W", "e", "e", "k", " ", "0", "1">>
LineWeek02 == <<"#", "#", "#", " ", "W", "e", "e", "k", " ", "0", "2">>
LineWeek012 == <<"#", "#", "#", " ", "W", "e", "e", "k", " ", "0", "1", "2">>
LineMonday == <<"#", "#", "#", "#", " ", "1", "/", "1", " ", "M", "o", "n", "d", "a", "y">>
LineTuesday == <<"#", "#", "#", "#", " ", "2", "/", "1", " ", "T", "u", "e", "s", "d", "a", "y">>
LineMon == <<"#", "#", "#", "#", " ", "3", "/", "1", " ", "M", "o", "n">>
LineA == <<"-", " ", "A">>
LineB == <<"-", " ", "B">>
LineWork == <<"-", " ", "W", "o", "r", "k">>
LineNote1 == <<" ", " ", " ", " ", "-", " ", "n">>
LineNote2 == <<" ", " ", " ", " ", " ", " ", " ", " ", "-", " ", "m">>
LineBlank == <<>>
LineDashBlank == <<" ", " ", "-", " ">>
LineText == <<"t", "e", "x", "t">>

\* Report lines
ReportA == <<"-", " ", "*", "*", "A", "*", "*">>
ReportAIndented == <<" ", " ", "-", " ", "*", "*", "A", "*", "*", " ", "x">>
ReportB == <<"-", " ", "*", "*", "B", "*", "*">>

WeekNumbers == {1, 2}

ExtractLinePool == {LineWeek01, LineWeek01Indented, LineWeek02, LineWeek012,
                    LineA, LineNote1}

WeekLinePool == {LineMonday, LineTuesday, LineMon, LineA, LineB, LineWork,
                 LineNote1, LineNote2, LineBlank}

DoneLinePool == {LineWeek01, LineMonday, LineMon, LineA, LineNote1}

BlankWeekLinePool == {LineMonday, LineA, LineWork, LineNote1, LineBlank, LineDashBlank}

ReportLinePool == {ReportA, ReportAIndented, ReportB, LineText, LineBlank}

PipeReportLinePool == {ReportA, LineText}

ActionPool ==
    [identation_width : {0},
     name : {NameA, NameB},
     category : {<<>>, Work},
     weekday_nums : {<<>>, <<"1", ",", " ", "0">>, <<",", " ", "0">>},
     notes : {<<>>, <<LineNote1, LineNote2>>}]

\* The dicts over ActionPool: no two values share a key.
Mappings ==
    {d \in SeqsUpTo(ActionPool, 2) :
        \A i, j \in 1..Len(d) : d[i].name = d[j].name => i = j}

NameC == <<"C">>

\* Actions for the Overview pass: several weekday lists, no notes.
OverviewActionPool ==
    [identation_width : {0},
     name : {NameA, NameB, NameC},
     category : {<<>>},
     weekday_nums : {<<>>, <<"0">>, <<"0", ",", " ", "2">>, <<"1">>},
     notes : {<<>>}]

OverviewMappings ==
    {d \in SeqsUpTo(OverviewActionPool, 3) :
        \A i, j \in 1..Len(d) : d[i].name = d[j].name => i = j}

----------------------------------------------------------------------------
(* Specifications. *)

InitLocals ==
    /\ ex_i = 1
    /\ week_lines = <<>>
    /\ target_week_started = FALSE
    /\ pa_i = 1
    /\ active_key = <<>>
    /\ last_category = <<>>
    /\ weekday_num = <<>>
    /\ ag_i = 1
    /\ ext_weekly_report = <<>>
    /\ used_action_names = {}
    /\ warnings = <<>>
    /\ line_pos = <<>>
    /\ overview_section = <<overview_header>>
    /\ result_report = <<>>
    /\ is_finished = FALSE
    /\ offset = 0
    /\ total_archived_count = 0
    /\ responses = <<>>

\* main(): both files are read, _extract_week_done_lines is about to run.
Init ==
    /\ pc = "extract"
    /\ done_lines \in SeqsUpTo(DoneLinePool, MaxDoneLen)
    /\ week_number \in WeekNumbers
    /\ report_lines \in SeqsUpTo(PipeReportLinePool, MaxPipeReportLen)
    /\ week_done_lines = <<>>
    /\ week_done_actions_dict = <<>>
    /\ week_done_actions_dict_copy = <<>>
    /\ archive_size = 0
    /\ InitLocals

Next == ExtractLine \/ ExtractReturn \/ ParseLine \/ ParseReturn
        \/ AggregateLine \/ Overview

Spec == Init /\ [][Next]_vars

\* _extract_week_done_lines alone, on any lines and week number.
InitExtract ==
    /\ pc = "extract"
    /\ done_lines \in SeqsUpTo(ExtractLinePool, MaxExtractLen)
    /\ week_number \in WeekNumbers
    /\ report_lines = <<>>
    /\ week_done_lines = <<>>
    /\ week_done_actions_dict = <<>>
    /\ week_done_actions_dict_copy = <<>>
    /\ archive_size = 0
    /\ InitLocals

NextExtract == ExtractLine \/ ExtractReturn

SpecExtract == InitExtract /\ [][NextExtract]_vars

\* _week_done_lines_to_dict alone, on any week lines.
InitParse ==
    /\ pc = "parse"
    /\ done_lines = <<>>
    /\ week_number = 1
    /\ report_lines = <<>>
    /\ week_done_lines \in SeqsUpTo(WeekLinePool, MaxWeekLen)
    /\ week_done_actions_dict = <<>>
    /\ week_done_actions_dict_copy = <<>>
    /\ archive_size = 0
    /\ InitLocals

NextParse == ParseLine \/ ParseReturn

SpecParse == InitParse /\ [][NextParse]_vars

\* _week_done_lines_to_dict on week lines with both kinds of blank line.
InitParseBlank ==
    /\ pc = "parse"
    /\ done_lines = <<>>
    /\ week_number = 1
    /\ report_lines = <<>>
    /\ week_done_lines \in SeqsUpTo(BlankWeekLinePool, MaxWeekLen)
    /\ week_done_actions_dict = <<>>
    /\ week_done_actions_dict_copy = <<>>
    /\ archive_size = 0
    /\ InitLocals

SpecParseBlank == InitParseBlank /\ [][NextParse]_vars

\* _aggregate_report alone, on any report lines and any dict.
InitAggregate ==
    /\ pc = "aggregate"
    /\ done_lines = <<>>
    /\ week_number = 1
    /\ report_lines \in SeqsUpTo(ReportLinePool, MaxReportLen)
    /\ week_done_lines = <<>>
    /\ week_done_actions_dict \in Mappings
    /\ week_done_actions_dict_copy = week_done_actions_dict
    /\ archive_size = 0
    /\ InitLocals

NextAggregate == AggregateLine \/ Overview

SpecAggregate == InitAggregate /\ [][NextAggregate]_vars

\* _aggregate_report on dicts that differ in names and weekday lists.
InitOverview ==
    /\ pc = "aggregate"
    /\ done_lines = <<>>
    /\ week_number = 1
    /\ report_lines \in SeqsUpTo({ReportA}, 1)
    /\ week_done_lines = <<>>
    /\ week_done_actions_dict \in OverviewMappings
    /\ week_done_actions_dict_copy = week_done_actions_dict
    /\ archive_size = 0
    /\ InitLocals

SpecOverview == InitOverview /\ [][NextAggregate]_vars

----------------------------------------------------------------------------
(* pocket_stats.main: the pagination over the archive *)

MAX_RETURN_ITEMS == 300

\* The number of items the API returns for a request of count items from
\* offset of an archive holding size items.
archived_page(size, from, count) ==
    IF size - from >= count THEN count
    ELSE IF size - from > 0 THEN size - from
    ELSE 0

\* The total taken from the last page alone.
archived_last_page(total, archived_count) == archived_count

\* total_archived_count += archived_count
add_archived(total, archived_count) == total + archived_count

\* One iteration of the while loop. The response is malformed (page <<>>:
\* empty, or without 'list' in its first element) or holds a page of the
\* archive.
PocketRequest ==
    /\ pc = "pocket"
    /\ ~is_finished
    /\ \E well_formed \in BOOLEAN :
          IF ~well_formed
          THEN /\ responses' = Append(responses, [offset |-> offset, page |-> <<>>])
               /\ pc' = "pocket_break"
               /\ UNCHANGED <<is_finished, offset, total_archived_count>>
          ELSE LET archived_count == archived_page(archive_size, offset, MAX_RETURN_ITEMS)
               IN  /\ responses' = Append(responses,
                                          [offset |-> offset, page |-> <<archived_count>>])
                   /\ is_finished' = IF archived_count < MAX_RETURN_ITEMS
                                     THEN TRUE ELSE is_finished
                   /\ total_archived_count' =
                          add_archived(total_archived_count, archived_count)
                   /\ offset' = offset + MAX_RETURN_ITEMS
                   /\ pc' = pc
    /\ UNCHANGED <<archive_size, input_vars, extract_vars, week_done_lines,
                   parse_vars, agg_vars, overview_section, result_report>>

\* The statements after the loop, reached by the break or by is_finished:
\* total_archived_count is logged as "Number archived".
PocketLog ==
    /\ \/ pc = "pocket_break"
       \/ pc = "pocket" /\ is_finished
    /\ pc' = "pocket_done"
    /\ UNCHANGED <<pocket_vars, input_vars, extract_vars, week_done_lines,
                   parse_vars, agg_vars, overview_section, result_report>>

\* pocket_stats.main before the loop, on an archive of any size up to
\* MaxArchive.
InitPocket ==
    /\ pc = "pocket"
    /\ done_lines = <<>>
    /\ week_number = 1
    /\ report_lines = <<>>
    /\ week_done_lines = <<>>
    /\ week_done_actions_dict = <<>>
    /\ week_done_actions_dict_copy = <<>>
    /\ archive_size \in 0..MaxArchive
    /\ InitLocals

NextPocket == PocketRequest \/ PocketLog

\* The loop runs on: no step of main waits for anything but the API's answer.
SpecPocket == InitPocket /\ [][NextPocket]_vars /\ WF_vars(NextPocket)

----------------------------------------------------------------------------
(* Vocabulary of the properties of _aggregate_report. *)

\* The bold name of report line k: <<>> or <<name>>.
BoldName(k) == entry_name_match(strip(report_lines[k]))

\* Report line k is a "- **<name>**" line for this name.
Names(k, name) == BoldName(k) = <<name>>

ActionSet == {week_done_actions_dict[i] : i \in 1..Len(week_done_actions_dict)}

\* Some report line names the action.
NamedInReport(action) == \E k \in 1..Len(report_lines) : Names(k, action.name)

\* Report line k names the action and no earlier report line does.
FirstNaming(k, action) ==
    /\ Names(k, action.name)
    /\ \A j \in 1..(k - 1) : ~Names(j, action.name)

\* The report lines read so far.
ReadLines == 1..Len(line_pos)

\* The index, in the report body, that follows the block of report line k.
BlockEnd(k) == IF k < Len(line_pos) THEN line_pos[k + 1]
               ELSE Len(ext_weekly_report) + 1

\* The lines of the report body between the copy of report line k and the
\* copy of the next report line.
InjectedAfter(k) == SubSeq(ext_weekly_report, line_pos[k] + 1, BlockEnd(k) - 1)

\* The Overview lines after the "## Overview" header.
OverviewBody == Tail(overview_section)

\* The Overview line of an action, with or without the tag.
OverviewLine(action, tag) ==
    action_weekdays(action) \o <<"-", " ">> \o action.name \o tag

Tagged(action) ==
    \E i \in 1..Len(OverviewBody) : OverviewBody[i] = OverviewLine(action, TRACKED_TAG)

Untagged(action) ==
    \E i \in 1..Len(OverviewBody) : OverviewBody[i] = OverviewLine(action, <<>>)

----------------------------------------------------------------------------
(* C1 *)

----------------------------------------------------------------------------
(* C2 *)

\* C2: for every report line read whose bold name names an action of the
\* mapping for the first time, the action's category not being ignored, the
\* report body holds, between the copy of that line and the copy of the next
\* report line, exactly the action's notes in their stored order, each
\* prefixed with as many spaces as the report line has leading whitespace
\* characters.
C2_NotesInjectedInOrder ==
    \A k \in ReadLines : \A action \in ActionSet :
        (FirstNaming(k, action) /\ action.category \notin IGNORED_CATEGORIES) =>
            /\ Len(InjectedAfter(k)) = Len(action.notes)
            /\ \A i \in 1..Len(action.notes) :
                  InjectedAfter(k)[i] =
                      spaces(leading(report_lines[k], Whitespace)) \o action.notes[i]

\* An indented report line has had two notes injected after it, and another
\* report line follows the block.
C2_Witness ==
    \E k \in ReadLines : \E action \in ActionSet :
        /\ FirstNaming(k, action)
        /\ action.category \notin IGNORED_CATEGORIES
        /\ leading(report_lines[k], Whitespace) > 0
        /\ Len(action.notes) = 2
        /\ Len(InjectedAfter(k)) = 2
        /\ k < Len(line_pos)

----------------------------------------------------------------------------
(* C5 *)

Perms(n) == {p \in [1..n -> 1..n] : \A i, j \in 1..n : p[i] = p[j] => i = j}

RECURSIVE Concat(_)
Concat(seqs) == IF seqs = <<>> THEN <<>> ELSE Head(seqs) \o Concat(Tail(seqs))

\* C5: in the output of _aggregate_report the Overview section is, after its
\* header, a sequence of blocks, one block per action of the mapping (none
\* missing, none repeated, named in the report or not), each block being the
\* action's entry line followed by the action's notes verbatim.
C5_OneOverviewEntryPerAction ==
    pc = "done" =>
        LET n == Len(week_done_actions_dict)
        IN  \E p \in Perms(n) : \E tag \in [1..n -> {<<>>, TRACKED_TAG}] :
                OverviewBody =
                    Concat([i \in 1..n |->
                               <<OverviewLine(week_done_actions_dict[p[i]], tag[i])>>
                                   \o week_done_actions_dict[p[i]].notes])

\* A finished run over two actions with notes, one named in the report and
\* one not.
C5_Witness ==
    /\ pc = "done"
    /\ \E a, b \in ActionSet :
          /\ NamedInReport(a) /\ ~NamedInReport(b)
          /\ a.notes # <<>> /\ b.notes # <<>>
          /\ a.name \notin dict_keys(week_done_actions_dict_copy)

----------------------------------------------------------------------------
(* C6 *)

WarningsFor(name) == Cardinality({i \in 1..Len(warnings) : warnings[i] = name})

ReadNaming(name) == {k \in ReadLines : Names(k, name)}

----------------------------------------------------------------------------
(* C7 *)

\* C7: no line is injected after a report line that names an action whose
\* category is ignored, and in the output the Overview section still holds
\* the action's entry line followed by its notes.
C7_IgnoredNotInjected ==
    \A action \in ActionSet :
        action.category \in IGNORED_CATEGORIES =>
            /\ \A k \in ReadNaming(action.name) : InjectedAfter(k) = <<>>
            /\ pc = "done" =>
                  \E i \in 1..Len(OverviewBody) :
                      /\ OverviewBody[i] \in {OverviewLine(action, <<>>),
                                              OverviewLine(action, TRACKED_TAG)}
                      /\ SubSeq(OverviewBody, i + 1, i + Len(action.notes)) = action.notes

\* A finished run in which a report line names an ignored action that has
\* notes.
C7_Witness ==
    /\ pc = "done"
    /\ \E action \in ActionSet :
          /\ action.category \in IGNORED_CATEGORIES
          /\ action.notes # <<>>
          /\ NamedInReport(action)

----------------------------------------------------------------------------
(* C10 *)

\* C10: the report body holds every report line read, unchanged and in the
\* original order, each followed only by its injected lines: the copies sit
\* at increasing indices starting at 1, the lines between them are the
\* injected ones, a report line that names no action of the mapping is
\* followed by no injected line, and the output ends with the whole body.
C10_ReportLinesKept ==
    /\ \A k \in ReadLines :
          /\ ext_weekly_report[line_pos[k]] = report_lines[k]
          /\ line_pos[k] < BlockEnd(k)
          /\ (\A action \in ActionSet : ~Names(k, action.name)) =>
                 InjectedAfter(k) = <<>>
    /\ line_pos # <<>> => line_pos[1] = 1
    /\ line_pos = <<>> => ext_weekly_report = <<>>
    /\ pc = "done" =>
          /\ Len(line_pos) = Len(report_lines)
          /\ SubSeq(result_report,
                    Len(result_report) - Len(ext_weekly_report) + 1,
                    Len(result_report)) = ext_weekly_report

\* A finished run over an indented report line with notes injected after it
\* and a report line that names no action.
C10_Witness ==
    /\ pc = "done"
    /\ \E j, k \in ReadLines :
          /\ InjectedAfter(j) # <<>>
          /\ leading(report_lines[j], Whitespace) > 0
          /\ report_lines[k] # <<>>
          /\ \A action \in ActionSet : ~Names(k, action.name)

----------------------------------------------------------------------------
(* C9 *)

TwoDigits(n) == <<DigitChars[(n \div 10) + 1], DigitChars[(n % 10) + 1]>>

\* "### Week <NN>" for the requested week
TargetHeader ==
    <<"#", "#", "#", " ", "W", "e", "e", "k", " ">> \o TwoDigits(week_number)

TargetHeaderLines ==
    {i \in 1..Len(done_lines) : strip(done_lines[i]) = TargetHeader}

WeekHeaderLines ==
    {i \in 1..Len(done_lines) :
        startswith(strip(done_lines[i]), <<"#", "#", "#", " ", "W", "e", "e", "k", " ">>)}

Least(S) == CHOOSE x \in S : \A y \in S : x <= y

LinesOfTargetWeek ==
    IF TargetHeaderLines = {} THEN <<>>
    ELSE LET first == Least(TargetHeaderLines)
             later == {j \in WeekHeaderLines : j > first}
             stop == IF later = {} THEN Len(done_lines) + 1 ELSE Least(later)
         IN  SubSeq(done_lines, first + 1, stop - 1)

\* C9: _extract_week_done_lines returns exactly the lines strictly between
\* the first line whose stripped text equals "### Week <NN>" and the next
\* later line whose stripped text starts with "### Week " (or the end of the
\* input), in their original order; it returns the empty sequence when no
\* line is the target header, and nothing after the closing header, a second
\* occurrence of the target header included, is returned.
C9_ExtractsFirstSpan ==
    pc = "parse" => week_done_lines = LinesOfTargetWeek

\* The extractor has returned a non-empty span of a week whose header occurs
\* a second time, with a line after the second occurrence.
C9_Witness ==
    /\ pc = "parse"
    /\ week_done_lines # <<>>
    /\ \E i, j \in TargetHeaderLines : i < j /\ j < Len(done_lines)

----------------------------------------------------------------------------
(* Vocabulary of the properties of _week_done_lines_to_dict. *)

WeekLine(i) == week_done_lines[i]

IsBlankLine(i) == done_line_stripped(WeekLine(i)) = <<>>

IsDayHeader(i) == ~IsBlankLine(i) /\ day_done_match(WeekLine(i)) # <<>>

IsCategoryLine(i) ==
    ~IsBlankLine(i) /\ ~IsDayHeader(i) /\ done_line_stripped(WeekLine(i)) \in CATEGORIES

\* An entry or note line: not blank, not a day header, not a category.
IsPlainLine(i) == ~IsBlankLine(i) /\ ~IsDayHeader(i) /\ ~IsCategoryLine(i)

Indentation(i) == leading(WeekLine(i), Whitespace)

\* Line i is a top-level occurrence of the action name.
IsOccurrence(i, name) ==
    IsPlainLine(i) /\ Indentation(i) = 0 /\ done_line_stripped(WeekLine(i)) = name

ParsedActions == {week_done_actions_dict[i] : i \in 1..Len(week_done_actions_dict)}

----------------------------------------------------------------------------
(* C4 *)

\* C4: when the week holds a category line followed by an entry line on the
\* second level of indentation, the parser produces an action named after
\* that entry whose category is that category, and a deeper-indented line
\* that follows the entry is among its notes.
C4_SecondLevelEntryParsed ==
    pc = "aggregate" =>
        \A i \in 1..(Len(week_done_lines) - 1) :
            (IsCategoryLine(i) /\ IsPlainLine(i + 1) /\ Indentation(i + 1) > 0) =>
                \E action \in ParsedActions :
                    /\ action.name = done_line_stripped(WeekLine(i + 1))
                    /\ action.category = done_line_stripped(WeekLine(i))
                    /\ (/\ i + 2 <= Len(week_done_lines)
                        /\ IsPlainLine(i + 2)
                        /\ Indentation(i + 2) > Indentation(i + 1)) =>
                           \E n \in 1..Len(action.notes) :
                               strip(action.notes[n]) = strip(WeekLine(i + 2))

----------------------------------------------------------------------------
(* C8 *)

Greatest(S) == CHOOSE x \in S : \A y \in S : y <= x

\* The weekday index (0 = Monday) of the day header above line i, or -1 when
\* no day header precedes line i.
DayAbove(i) ==
    LET headers == {j \in 1..(i - 1) : IsDayHeader(j)}
    IN  IF headers = {} THEN -1
        ELSE LET word == day_done_match(WeekLine(Greatest(headers)))[1]
             IN  IF \E d \in 1..7 : WEEKDAYS[d] = word
                 THEN (CHOOSE d \in 1..7 : WEEKDAYS[d] = word) - 1
                 ELSE 7

\* The distinct days of the occurrences of the name within the first n
\* lines, in the order the days were first seen.
RECURSIVE DaysSeen(_, _)
DaysSeen(name, n) ==
    IF n = 0 THEN <<>>
    ELSE LET before == DaysSeen(name, n - 1)
         IN  IF /\ IsOccurrence(n, name)
                /\ DayAbove(n) >= 0
                /\ \A k \in 1..Len(before) : before[k] # DayAbove(n)
             THEN Append(before, DayAbove(n))
             ELSE before

RECURSIVE JoinDays(_)
JoinDays(days) ==
    IF days = <<>> THEN <<>>
    ELSE IF Len(days) = 1 THEN <<DigitChars[days[1] + 1]>>
    ELSE <<DigitChars[days[1] + 1], ",", " ">> \o JoinDays(Tail(days))

\* Every top-level occurrence of the name lies under a day header.
OccursUnderDayHeaders(name) ==
    /\ \E i \in 1..Len(week_done_lines) : IsOccurrence(i, name)
    /\ \A i \in 1..Len(week_done_lines) : IsOccurrence(i, name) => DayAbove(i) >= 0

\* C8: after the parser has processed the week lines, the weekday_nums of an
\* action whose top-level occurrences lie under day headers is the list of
\* the indices (0 = Monday .. 6 = Sunday) of the distinct days on which it
\* occurred, each once, in the order the days were first seen, joined by
\* ", ".
C8_WeekdayNumsListDays ==
    pc = "aggregate" =>
        \A action \in ParsedActions :
            OccursUnderDayHeaders(action.name) =>
                action.weekday_nums =
                    JoinDays(DaysSeen(action.name, Len(week_done_lines)))

\* The parser has returned an action that occurred on Tuesday and then on
\* Monday.
C8_Witness ==
    /\ pc = "aggregate"
    /\ \E action \in ParsedActions :
          /\ OccursUnderDayHeaders(action.name)
          /\ DaysSeen(action.name, Len(week_done_lines)) = <<1, 0>>
          /\ action.weekday_nums = <<"1", ",", " ", "0">>

----------------------------------------------------------------------------
(* C3 *)

\* C3: for every sequence of Done-log lines and every sequence of report
\* lines, the week extractor, the Done-line parser and the aggregator run to
\* a result text and none of them raises.
C3_NeverRaises == pc # "raised"

----------------------------------------------------------------------------
(* C11 *)

\* C11: when no line of the Done-log is the header of the requested week,
\* the pipeline (extract, parse, aggregate) ends with an empty action mapping
\* and its output is exactly the line "## Overview", a blank line, and then
\* the report lines unchanged with nothing injected.
C11_MissingWeekPassesReportThrough ==
    (pc = "done" /\ TargetHeaderLines = {}) =>
        /\ week_done_actions_dict = <<>>
        /\ result_report =
               << <<"#", "#", " ", "O", "v", "e", "r", "v", "i", "e", "w">>, <<>> >>
                   \o report_lines

\* A finished run for a week whose header is missing from a Done-log that
\* holds another week with an action, over a report that names that action.
C11_Witness ==
    /\ pc = "done"
    /\ TargetHeaderLines = {}
    /\ WeekHeaderLines # {}
    /\ \E i \in 1..Len(done_lines) : done_lines[i] = LineA
    /\ \E k \in 1..Len(report_lines) : BoldName(k) = <<NameA>>

----------------------------------------------------------------------------
(* C12 *)

\* "- <weekday_nums> " (omitted when no weekday is recorded) + "- <name> "
OverviewKey(action) ==
    (IF action.weekday_nums = <<>> THEN <<>>
     ELSE <<"-", " ">> \o action.weekday_nums \o <<" ">>)
        \o <<"-", " ">> \o action.name \o <<" ">>

\* The index of the action's entry line in the Overview.
EmittedAt(action) ==
    CHOOSE i \in 1..Len(OverviewBody) :
        OverviewBody[i] \in {OverviewLine(action, <<>>),
                             OverviewLine(action, TRACKED_TAG)}

\* The first weekday number of a non-empty weekday_nums.
FirstWeekday(action) == int(split(action.weekday_nums, <<",", " ">>)[1])

\* C12, as stated: the Overview entries are emitted in ascending ordinal
\* order of the key, and this order is weekday-number-then-name: of two
\* actions the one with the smaller weekday number is emitted first, and of
\* two actions starting on the same weekday the one with the smaller name is
\* emitted first.
C12_WeekdayThenName ==
    pc = "done" =>
        \A a, b \in ActionSet :
            /\ str_less(OverviewKey(a), OverviewKey(b)) => EmittedAt(a) < EmittedAt(b)
            /\ (a.weekday_nums # <<>> /\ b.weekday_nums # <<>>) =>
                  /\ FirstWeekday(a) < FirstWeekday(b) => EmittedAt(a) < EmittedAt(b)
                  /\ (FirstWeekday(a) = FirstWeekday(b) /\ str_less(a.name, b.name)) =>
                         EmittedAt(a) < EmittedAt(b)

\* The name holds no character below the space.
NoControlChars(name) == \A i \in 1..Len(name) : ord(name[i]) >= 32

\* C12, amended: the Overview entries are emitted in ascending ordinal order
\* of the key, compared as a whole string; of two actions with the same
\* weekday_nums, whose names hold no character below the space, the one with
\* the smaller name is emitted first, and of two actions whose weekday_nums
\* are single weekdays the one with the smaller weekday is emitted first.
C12_KeyOrder ==
    pc = "done" =>
        \A a, b \in ActionSet :
            /\ str_less(OverviewKey(a), OverviewKey(b)) => EmittedAt(a) < EmittedAt(b)
            /\ (/\ a.weekday_nums = b.weekday_nums
                /\ NoControlChars(a.name) /\ NoControlChars(b.name)
                /\ str_less(a.name, b.name)) =>
                   EmittedAt(a) < EmittedAt(b)
            /\ (/\ Len(a.weekday_nums) = 1 /\ Len(b.weekday_nums) = 1
                /\ FirstWeekday(a) < FirstWeekday(b)) =>
                   EmittedAt(a) < EmittedAt(b)

\* A finished run in which an action on Monday and Wednesday is emitted
\* after an action on Monday alone that has a greater name, and before an
\* action on Tuesday.
C12_Witness ==
    /\ pc = "done"
    /\ \E a, b, c \in ActionSet :
          /\ a.weekday_nums = <<"0", ",", " ", "2">>
          /\ b.weekday_nums = <<"0">>
          /\ c.weekday_nums = <<"1">>
          /\ str_less(a.name, b.name)
          /\ EmittedAt(b) < EmittedAt(a)
          /\ EmittedAt(a) < EmittedAt(c)

----------------------------------------------------------------------------
(* C13 *)

\* The note lines nested under the action line above line j: the indented
\* entry lines from line j on, blank lines skipped, up to the next day
\* header, category line or top-level line.
RECURSIVE NotesFrom(_)
NotesFrom(j) ==
    IF j > Len(week_done_lines) THEN <<>>
    ELSE IF IsBlankLine(j) THEN NotesFrom(j + 1)
    ELSE IF IsPlainLine(j) /\ Indentation(j) > 0
    THEN <<WeekLine(j)>> \o NotesFrom(j + 1)
    ELSE <<>>

\* Line i is the only top-level line of the action, it lies under the day
\* header of weekday w and has note lines nested under it, and report line k
\* is the first "- **<name>**" line of the action and is not indented.
EndToEndCase(i, w, name, k) ==
    /\ IsOccurrence(i, name)
    /\ \A j \in 1..Len(week_done_lines) : IsOccurrence(j, name) => j = i
    /\ DayAbove(i) = w
    /\ NotesFrom(i + 1) # <<>>
    /\ Names(k, name)
    /\ \A j \in 1..(k - 1) : ~Names(j, name)
    /\ leading(report_lines[k], Whitespace) = 0

\* The Overview holds this entry line followed by these note lines.
OverviewHolds(line, notes) ==
    \E n \in 1..Len(OverviewBody) :
        /\ OverviewBody[n] = line
        /\ SubSeq(OverviewBody, n + 1, n + Len(notes)) = notes

----------------------------------------------------------------------------
(* C14 *)

\* The week lines with the blank ones removed.
RECURSIVE WithoutBlankLines(_)
WithoutBlankLines(lines) ==
    IF lines = <<>> THEN <<>>
    ELSE IF strip(lstrip_chars(Head(lines), {"-", " "})) = <<>>
    THEN WithoutBlankLines(Tail(lines))
    ELSE <<Head(lines)>> \o WithoutBlankLines(Tail(lines))

\* C14: lines that are empty after stripping leading '-' and space
\* characters and whitespace neither close nor extend parser state: the
\* mapping the parser returns for the week lines is the mapping it produces
\* for the same lines with every such line removed, notes included.
C14_BlankLinesIgnored ==
    pc = "aggregate" =>
        week_done_actions_dict =
            week_done_lines_to_dict(WithoutBlankLines(week_done_lines)).dict

\* The parser has returned an action whose note was separated from its
\* action line by a "  - " line.
C14_Witness ==
    /\ pc = "aggregate"
    /\ \E i \in 1..(Len(week_done_lines) - 2) : \E action \in ParsedActions :
          /\ IsOccurrence(i, action.name)
          /\ WeekLine(i + 1) = LineDashBlank
          /\ IsPlainLine(i + 2) /\ Indentation(i + 2) > 0
          /\ action.notes = <<WeekLine(i + 2)>>

----------------------------------------------------------------------------
(* C15 *)

\* The number of week lines the parser has processed.
LinesParsed == pa_i - 1

\* Line i is a zero-indentation action line.
IsActionLine(i) == IsPlainLine(i) /\ Indentation(i) = 0

\* The active action after line i, <<name>>, or <<>> when there is none: the
\* name on the last action line at or before i, unless a day header or a
\* category line came after it.
ActiveAfter(i) ==
    LET marks == {j \in 1..i : IsActionLine(j) \/ IsDayHeader(j) \/ IsCategoryLine(j)}
    IN  IF marks = {} THEN <<>>
        ELSE IF IsActionLine(Greatest(marks))
        THEN <<done_line_stripped(WeekLine(Greatest(marks)))>>
        ELSE <<>>

\* Line i is an indented, non-blank, non-category, non-day-header line.
IsNoteLine(i) == IsPlainLine(i) /\ Indentation(i) > 0

\* The note lines among the first n lines read while the action of that name
\* was active, in source order.
RECURSIVE NotesRead(_, _)
NotesRead(name, n) ==
    IF n = 0 THEN <<>>
    ELSE IF IsNoteLine(n) /\ ActiveAfter(n) = <<name>>
    THEN Append(NotesRead(name, n - 1), WeekLine(n))
    ELSE NotesRead(name, n - 1)

\* C15: after the parser has processed any number of week lines, the notes of
\* each action are exactly the indented, non-blank, non-category,
\* non-day-header lines read while that action was active, in source order,
\* those read after a repeated occurrence of the name after the earlier ones.
C15_NotesInSourceOrder ==
    pc \in {"parse", "aggregate"} =>
        \A action \in ParsedActions :
            action.notes = NotesRead(action.name, LinesParsed)

\* The parser has returned an action with two different notes, the second
\* read after a repeated top-level occurrence of its name.
C15_Witness ==
    /\ pc = "aggregate"
    /\ \E action \in ParsedActions :
       \E i, j, k, l \in 1..Len(week_done_lines) :
          /\ i < j /\ j < k /\ k < l
          /\ IsOccurrence(i, action.name) /\ IsNoteLine(j)
          /\ IsOccurrence(k, action.name) /\ IsNoteLine(l)
          /\ WeekLine(j) # WeekLine(l)
          /\ action.notes = <<WeekLine(j), WeekLine(l)>>

----------------------------------------------------------------------------
(* C16 *)

\* Line i is an indented line read after a day header or a category line and
\* before the next zero-indentation action line.
IsDroppedLine(i) ==
    /\ IsNoteLine(i)
    /\ \E j \in 1..(i - 1) :
          /\ IsDayHeader(j) \/ IsCategoryLine(j)
          /\ \A k \in (j + 1)..i : ~IsActionLine(k)

----------------------------------------------------------------------------
(* C17 *)

\* C17: no step of _aggregate_report changes the mapping it was given: the
\* keys, and the name, category, weekday_nums and notes of every action, stay
\* as they were, also in the steps that consume an action.
C17_GivenMappingUnchanged ==
    [][pc = "aggregate" => week_done_actions_dict' = week_done_actions_dict]_vars

\* _aggregate_report has returned after consuming an action: the working copy
\* has lost it and the given mapping still holds it.
C17_Witness ==
    /\ pc = "done"
    /\ \E action \in ActionSet :
          /\ action.name \in used_action_names
          /\ action.name \notin dict_keys(week_done_actions_dict_copy)
          /\ action.name \in dict_keys(week_done_actions_dict)

----------------------------------------------------------------------------
(* C18 *)

\* The distinct names on the zero-indentation action lines among the first n
\* lines.
NamesSeen(n) == {done_line_stripped(WeekLine(i)) : i \in {j \in 1..n : IsActionLine(j)}}

\* s is a prefix of t.
IsPrefix(s, t) == Len(s) <= Len(t) /\ SubSeq(t, 1, Len(s)) = s

\* The mapping holds one action per key.
OneActionPerKey ==
    \A i, j \in 1..Len(week_done_actions_dict) :
        week_done_actions_dict[i].name = week_done_actions_dict[j].name => i = j

\* Every action of the mapping is still there after the step, in its place,
\* with the notes and weekdays it had.
ActionsKept ==
    /\ Len(week_done_actions_dict) <= Len(week_done_actions_dict')
    /\ \A i \in 1..Len(week_done_actions_dict) :
          /\ week_done_actions_dict'[i].name = week_done_actions_dict[i].name
          /\ week_done_actions_dict'[i].category = week_done_actions_dict[i].category
          /\ week_done_actions_dict'[i].identation_width =
                 week_done_actions_dict[i].identation_width
          /\ IsPrefix(week_done_actions_dict[i].notes, week_done_actions_dict'[i].notes)
          /\ IsPrefix(week_done_actions_dict[i].weekday_nums,
                      week_done_actions_dict'[i].weekday_nums)

\* C18: after every line the parser processes, the mapping holds exactly one
\* action per distinct zero-indentation action name seen so far, under that
\* name, and every step of the parser keeps the actions already created (a
\* repeated top-level occurrence reuses the existing action).
C18_OneActionPerNameSeen ==
    /\ [](pc \in {"parse", "aggregate"} =>
             /\ OneActionPerKey
             /\ dict_keys(week_done_actions_dict) = NamesSeen(LinesParsed))
    /\ [][pc = "parse" => ActionsKept]_vars

\* The parser has processed a repeated top-level occurrence of a name with
\* notes, and another name; the mapping holds the two actions.
C18_Witness ==
    /\ pc = "parse"
    /\ Len(week_done_actions_dict) = 2
    /\ \E i, j \in 1..LinesParsed :
          /\ i < j
          /\ IsOccurrence(i, week_done_actions_dict[1].name)
          /\ IsOccurrence(j, week_done_actions_dict[1].name)
          /\ week_done_actions_dict[1].notes # <<>>

----------------------------------------------------------------------------
(* C19 *)

\* C19: every action the parser creates has identation_width 0, and every
\* note it stores is, character for character, one of the indented raw lines
\* read so far, leading whitespace included.
C19_NotesAreRawLines ==
    pc \in {"parse", "aggregate"} =>
        \A action \in ParsedActions :
            /\ action.identation_width = 0
            /\ \A k \in 1..Len(action.notes) :
                  \E i \in 1..LinesParsed :
                      /\ IsNoteLine(i)
                      /\ action.notes[k] = WeekLine(i)
                      /\ leading(action.notes[k], Whitespace) = Indentation(i)

\* The parser has returned an action holding a note indented by four spaces
\* and a note indented by eight.
C19_Witness ==
    /\ pc = "aggregate"
    /\ \E action \in ParsedActions :
          /\ action.identation_width = 0
          /\ \E k, l \in 1..Len(action.notes) :
                /\ leading(action.notes[k], Whitespace) = 4
                /\ leading(action.notes[l], Whitespace) = 8

----------------------------------------------------------------------------
(* C20 *)

\* The sum of the sizes of the well-formed pages among the first n responses.
RECURSIVE PagesSum(_)
PagesSum(n) ==
    IF n = 0 THEN 0
    ELSE PagesSum(n - 1) + (IF responses[n].page = <<>> THEN 0 ELSE responses[n].page[1])

\* The loop has stopped.
PocketStopped == pc \in {"pocket_break", "pocket_done"} \/ is_finished

\* C20: the k-th request of the pagination loop asks for offset 300 * (k - 1);
\* every response before the last one received is a well-formed page of 300
\* items, and the loop has stopped once the last one is malformed or holds
\* fewer than 300; when main logs the total it is the sum of the sizes of the
\* well-formed pages received; and on a finite archive main gets to log it.
C20_PaginationStopsWithTotal ==
    /\ [](/\ \A k \in 1..Len(responses) :
                responses[k].offset = MAX_RETURN_ITEMS * (k - 1)
          /\ \A k \in 1..(Len(responses) - 1) :
                responses[k].page = <<MAX_RETURN_ITEMS>>
          /\ (responses # <<>> /\ responses[Len(responses)].page # <<MAX_RETURN_ITEMS>>)
                => PocketStopped
          /\ pc = "pocket_done" => total_archived_count = PagesSum(Len(responses)))
    /\ <>(pc = "pocket_done")

\* main has logged the total after two full pages and a third, shorter one.
C20_Witness ==
    /\ pc = "pocket_done"
    /\ Len(responses) = 3
    /\ responses[3].offset = 600
    /\ responses[3].page # <<>> /\ responses[3].page[1] \in 1..299
    /\ total_archived_count = 600 + responses[3].page[1]

====
